---------------------------- MODULE Spec2Model ----------------------------
(***************************************************************************)
(* maskfs: an HTTP file server that hides every entry its glob mask does   *)
(* not select.                                                             *)
(*                                                                         *)
(* A Go string is a sequence of bytes.  A byte is written as the one       *)
(* character string of its ASCII glyph when it is printable (32..126, but  *)
(* for the backquote) and as "x<n>" otherwise: "a.go" is                   *)
(* <<"a", ".", "g", "o">>, and a line feed is "x10".                       *)
(***************************************************************************)
EXTENDS Integers, Sequences, FiniteSets, TLC

(***************************************************************************)
(* Bytes                                                                   *)
(***************************************************************************)
Ascii ==
    <<" ", "!", "\"", "#", "$", "%", "&", "'", "(", ")", "*", "+", ",", "-", ".", "/",
      "0", "1", "2", "3", "4", "5", "6", "7", "8", "9", ":", ";", "<", "=", ">", "?",
      "@", "A", "B", "C", "D", "E", "F", "G", "H", "I", "J", "K", "L", "M", "N", "O",
      "P", "Q", "R", "S", "T", "U", "V", "W", "X", "Y", "Z", "[", "\\", "]", "^", "_",
      "x96", "a", "b", "c", "d", "e", "f", "g", "h", "i", "j", "k", "l", "m", "n", "o",
      "p", "q", "r", "s", "t", "u", "v", "w", "x", "y", "z", "{", "|", "}", "~">>

Chr(n) == IF n \in 32..126 THEN Ascii[n - 31] ELSE "x" \o ToString(n)

OrdOf == [c \in {Chr(n) : n \in 0..255} |-> CHOOSE n \in 0..255 : Chr(n) = c]

Ord(c) == OrdOf[c]

InRange(c, lo, hi) == Ord(lo) <= Ord(c) /\ Ord(c) <= Ord(hi)

IsAlnum(c) == InRange(c, "a", "z") \/ InRange(c, "A", "Z") \/ InRange(c, "0", "9")

\* The < of Go on strings: lexicographic on bytes, a proper prefix first.
RECURSIVE StrLess(_, _)
StrLess(a, b) ==
    IF b = <<>> THEN FALSE
    ELSE IF a = <<>> THEN TRUE
    ELSE IF a[1] # b[1] THEN Ord(a[1]) < Ord(b[1])
    ELSE StrLess(Tail(a), Tail(b))

(***************************************************************************)
(* package strings                                                         *)
(***************************************************************************)
Contains(s, c) == \E i \in 1..Len(s) : s[i] = c

HasPrefix(s, p) == Len(p) <= Len(s) /\ SubSeq(s, 1, Len(p)) = p

HasSuffix(s, p) == Len(p) <= Len(s) /\ SubSeq(s, Len(s) - Len(p) + 1, Len(s)) = p

TrimPrefix(s, p) == IF HasPrefix(s, p) THEN SubSeq(s, Len(p) + 1, Len(s)) ELSE s

\* strings.Split(s, sep) for a one byte separator: n separators give n+1 parts.
RECURSIVE Split(_, _)
Split(s, sep) ==
    IF Contains(s, sep)
    THEN LET i == CHOOSE k \in 1..Len(s) : s[k] = sep /\ \A j \in 1..(k - 1) : s[j] # sep
         IN  <<SubSeq(s, 1, i - 1)>> \o Split(SubSeq(s, i + 1, Len(s)), sep)
    ELSE <<s>>

RECURSIVE Join(_, _)
Join(parts, sep) ==
    IF parts = <<>> THEN <<>>
    ELSE IF Len(parts) = 1 THEN parts[1]
    ELSE parts[1] \o <<sep>> \o Join(Tail(parts), sep)

RECURSIVE TrimLeft(_, _)
TrimLeft(s, c) == IF s # <<>> /\ s[1] = c THEN TrimLeft(Tail(s), c) ELSE s

RECURSIVE TrimRight(_, _)
TrimRight(s, c) ==
    IF s # <<>> /\ s[Len(s)] = c THEN TrimRight(SubSeq(s, 1, Len(s) - 1), c) ELSE s

\* strings.TrimSpace, for the one white space byte the rule texts here hold.
TrimSpace(s) == TrimRight(TrimLeft(s, " "), " ")

(***************************************************************************)
(* package net/url: escaping                                               *)
(***************************************************************************)
UpperHex == <<"0", "1", "2", "3", "4", "5", "6", "7", "8", "9", "A", "B", "C", "D", "E", "F">>

ishex(c) == InRange(c, "0", "9") \/ InRange(c, "a", "f") \/ InRange(c, "A", "F")

unhex(c) ==
    IF InRange(c, "0", "9") THEN Ord(c) - Ord("0")
    ELSE IF InRange(c, "a", "f") THEN Ord(c) - Ord("a") + 10
    ELSE Ord(c) - Ord("A") + 10

\* url.shouldEscape: mode is "segment" (encodePathSegment) or "path" (encodePath).
shouldEscape(c, mode) ==
    IF IsAlnum(c) THEN FALSE
    ELSE IF c \in {"-", "_", ".", "~"} THEN FALSE
    ELSE IF c \in {"$", "&", "+", ",", "/", ":", ";", "=", "?", "@"}
         THEN IF mode = "path" THEN c = "?" ELSE c \in {"/", ";", ",", "?"}
    ELSE TRUE

RECURSIVE escape(_, _)
escape(s, mode) ==
    IF s = <<>> THEN <<>>
    ELSE (IF shouldEscape(s[1], mode)
          THEN <<"%", UpperHex[(Ord(s[1]) \div 16) + 1], UpperHex[(Ord(s[1]) % 16) + 1]>>
          ELSE <<s[1]>>) \o escape(Tail(s), mode)

\* url.unescape in a path mode: every %XX is one byte and a plus sign stays; a
\* percent sign that two hex digits do not follow is an EscapeError, and the
\* result is then "".
RECURSIVE unescapeFrom(_, _, _)
unescapeFrom(s, i, out) ==
    IF i > Len(s) THEN [err |-> FALSE, val |-> out]
    ELSE IF s[i] = "%"
         THEN IF i + 2 > Len(s) \/ ~ishex(s[i + 1]) \/ ~ishex(s[i + 2])
              THEN [err |-> TRUE, val |-> <<>>]
              ELSE unescapeFrom(s, i + 3,
                                Append(out, Chr(16 * unhex(s[i + 1]) + unhex(s[i + 2]))))
    ELSE unescapeFrom(s, i + 1, Append(out, s[i]))

unescape(s) == unescapeFrom(s, 1, <<>>)

PathEscape(s) == escape(s, "segment")

PathUnescape(s) == unescape(s)

(***************************************************************************)
(* package path / path/filepath (a Unix build: the separator is '/')       *)
(***************************************************************************)
DotDot == <<".", ".">>

RECURSIVE CleanElems(_, _, _)
CleanElems(elems, out, rooted) ==
    IF elems = <<>> THEN out
    ELSE LET e == Head(elems)
             rest == Tail(elems)
         IN  IF e = <<>> \/ e = <<".">> THEN CleanElems(rest, out, rooted)
             ELSE IF e = DotDot
                  THEN IF out # <<>> /\ out[Len(out)] # DotDot
                       THEN CleanElems(rest, SubSeq(out, 1, Len(out) - 1), rooted)
                       ELSE IF rooted THEN CleanElems(rest, out, rooted)
                       ELSE CleanElems(rest, Append(out, e), rooted)
             ELSE CleanElems(rest, Append(out, e), rooted)

\* filepath.Clean: "" is ".", no empty or "." element, no ".." after a name,
\* no ".." right under the root, no trailing slash.
CleanOut(rooted, out) ==
    IF rooted THEN <<"/">> \o Join(out, "/")
    ELSE IF out = <<>> THEN <<".">>
    ELSE Join(out, "/")

Clean(s) ==
    IF s = <<>> THEN <<".">>
    ELSE CleanOut(s[1] = "/", CleanElems(Split(s, "/"), <<>>, s[1] = "/"))

\* path.Join / filepath.Join of two elements: empty elements are ignored.
PathJoin(a, b) ==
    IF a = <<>> /\ b = <<>> THEN <<>>
    ELSE IF a = <<>> THEN Clean(b)
    ELSE IF b = <<>> THEN Clean(a)
    ELSE Clean(a \o <<"/">> \o b)

\* fs.ValidPath: "." or slash separated elements, none empty, "." or "..".
ValidElems(elems) == \A i \in 1..Len(elems) : elems[i] \notin {<<>>, <<".">>, DotDot}

ValidPath(name) == name = <<".">> \/ (name # <<>> /\ ValidElems(Split(name, "/")))

Last(parts) == parts[Len(parts)]

Base(s) == Last(Split(s, "/"))

\* url.validEncoded in encodePath mode.
validEncoded(s) ==
    \A i \in 1..Len(s) :
        \/ s[i] \in {"!", "$", "&", "'", "(", ")", "*", "+", ",", ";", "=", ":", "@",
                     "[", "]", "%"}
        \/ ~shouldEscape(s[i], "path")

\* URL.setPath followed by URL.String for a URL that is a path only: RawPath is
\* kept when it is not the default encoding of Path, and EscapedPath prefers it
\* when it is a valid encoding of Path.
URLStringOf(p, path) ==
    IF p # escape(path.val, "path") /\ validEncoded(p) /\ ~path.err /\ unescape(p) = path
    THEN p
    ELSE escape(path.val, "path")

URLString(p) == URLStringOf(p, unescape(p))

\* url.JoinPath(base, elem): path.Join of the escaped base path and elem.
JoinPath(base, elem) == URLString(PathJoin(base, elem))

(***************************************************************************)
(* go-git gitignore: the matcher behind GlobMask                           *)
(***************************************************************************)
\* filepath.Match for patterns of literal bytes, '*' and '?'.
RECURSIVE Match(_, _)
Match(pat, name) ==
    IF pat = <<>> THEN name = <<>>
    ELSE IF pat[1] = "*"
         THEN \E k \in 0..Len(name) :
                  /\ \A j \in 1..k : name[j] # "/"
                  /\ Match(Tail(pat), SubSeq(name, k + 1, Len(name)))
    ELSE /\ name # <<>>
         /\ IF pat[1] = "?" THEN name[1] # "/" ELSE name[1] = pat[1]
         /\ Match(Tail(pat), Tail(name))

ZeroToManyDirs == <<"*", "*">>

\* gitignore.ParsePattern(line, nil).
ParsePattern(line) ==
    LET inclusion == HasPrefix(line, <<"!">>)
        p1 == IF inclusion THEN Tail(line) ELSE line
        p2 == IF HasSuffix(p1, <<"\\", " ">>) THEN p1 ELSE TrimRight(p1, " ")
        dirOnly == HasSuffix(p2, <<"/">>)
        p3 == IF dirOnly THEN SubSeq(p2, 1, Len(p2) - 1) ELSE p2
    IN  [inclusion |-> inclusion,
         dirOnly   |-> dirOnly,
         isGlob    |-> Contains(p3, "/"),
         pattern   |-> Split(p3, "/")]

\* pattern.simpleNameMatch: the first element of the path the name pattern
\* matches decides.
simpleNameMatch(p, path, isDir) ==
    /\ \E i \in 1..Len(path) : Match(p.pattern[1], path[i])
    /\ LET i == CHOOSE k \in 1..Len(path) :
                    /\ Match(p.pattern[1], path[k])
                    /\ \A j \in 1..(k - 1) : ~Match(p.pattern[1], path[j])
       IN  ~(p.dirOnly /\ ~isDir /\ i = Len(path))

ContainsZeroToManyDirs(seg) ==
    \E i \in 1..(Len(seg) - 1) : seg[i] = "*" /\ seg[i + 1] = "*"

\* pattern.globMatch: the loop over the elements of the pattern, from element i.
RECURSIVE globLoop(_, _, _, _, _, _)
globLoop(p, i, path, isDir, matched, canTraverse) ==
    LET done(m, rest) == IF m /\ p.dirOnly /\ ~isDir /\ rest = <<>> THEN FALSE ELSE m
    IN  IF i > Len(p.pattern) THEN done(matched, path)
        ELSE LET seg == p.pattern[i]
             IN  IF seg = <<>> THEN globLoop(p, i + 1, path, isDir, matched, FALSE)
                 ELSE IF seg = ZeroToManyDirs
                      THEN IF i = Len(p.pattern) THEN done(matched, path)
                           ELSE globLoop(p, i + 1, path, isDir, matched, TRUE)
                 ELSE IF ContainsZeroToManyDirs(seg) THEN FALSE
                 ELSE IF path = <<>> THEN FALSE
                 ELSE IF canTraverse
                      THEN IF \E k \in 1..Len(path) : Match(seg, path[k])
                           THEN LET k == CHOOSE n \in 1..Len(path) :
                                             /\ Match(seg, path[n])
                                             /\ \A j \in 1..(n - 1) : ~Match(seg, path[j])
                                IN  globLoop(p, i + 1, SubSeq(path, k + 1, Len(path)),
                                             isDir, TRUE, FALSE)
                           ELSE globLoop(p, i + 1, <<>>, isDir, FALSE, FALSE)
                 ELSE IF ~Match(seg, path[1]) THEN FALSE
                 ELSE globLoop(p, i + 1, Tail(path), isDir, TRUE, FALSE)

globMatch(p, path, isDir) == globLoop(p, 1, path, isDir, FALSE, FALSE)

\* pattern.Match with an empty domain: NoMatch, Exclude (a plain pattern) or
\* Include (a pattern that '!' negates).
PatternMatch(p, path, isDir) ==
    IF Len(path) = 0 THEN "NoMatch"
    ELSE IF p.isGlob /\ ~globMatch(p, path, isDir) THEN "NoMatch"
    ELSE IF ~p.isGlob /\ ~simpleNameMatch(p, path, isDir) THEN "NoMatch"
    ELSE IF p.inclusion THEN "Include"
    ELSE "Exclude"

\* The bug a first-match-wins loop would be.
RECURSIVE MatcherMatchFirstWins(_, _, _)
MatcherMatchFirstWins(patterns, path, isDir) ==
    IF patterns = <<>> THEN FALSE
    ELSE LET m == PatternMatch(Head(patterns), path, isDir)
         IN  IF m # "NoMatch" THEN m = "Exclude"
             ELSE MatcherMatchFirstWins(Tail(patterns), path, isDir)

\* matcher.Match: from the last pattern to the first, the first that matches
\* decides; true when it is a plain pattern.
RECURSIVE MatcherMatch(_, _, _)
MatcherMatch(patterns, path, isDir) ==
    IF patterns = <<>> THEN FALSE
    ELSE LET m == PatternMatch(patterns[Len(patterns)], path, isDir)
         IN  IF m # "NoMatch" THEN m = "Exclude"
             ELSE MatcherMatch(SubSeq(patterns, 1, Len(patterns) - 1), path, isDir)

(***************************************************************************)
(* package mask                                                            *)
(***************************************************************************)
NL == "x10"

\* NewGlobMask: one pattern per line that is neither blank nor a comment, in
\* the order of the lines.
RECURSIVE CompileLines(_)
CompileLines(lines) ==
    IF lines = <<>> THEN <<>>
    ELSE LET line == TrimSpace(Head(lines))
         IN  IF line = <<>> \/ HasPrefix(line, <<"#">>) THEN CompileLines(Tail(lines))
             ELSE <<ParsePattern(line)>> \o CompileLines(Tail(lines))

NewGlobMask(rules) == CompileLines(Split(rules, NL))

\* *index.Entry, or nil: the record with valid = FALSE.  Size, Mode and ModTime
\* are copied from the stat result and read by the template only.
NilEntry ==
    [valid |-> FALSE, Name |-> <<>>, IsDir |-> FALSE, FSPath |-> <<>>, LinkPath |-> <<>>]

\* The bug a mask that lets an invalid entry through would be.
MaskedNilVisible(m, entry) ==
    IF ~entry.valid THEN FALSE
    ELSE ~MatcherMatch(m, Split(entry.FSPath, "/"), entry.IsDir)

\* GlobMask.Masked
Masked(m, entry) ==
    IF ~entry.valid THEN TRUE
    ELSE ~MatcherMatch(m, Split(entry.FSPath, "/"), entry.IsDir)

(***************************************************************************)
(* The served tree and the configuration                                   *)
(***************************************************************************)
VARIABLES
    cfgMask,   \* Config.Mask: the rule text the server was started with
    broken,    \* the paths whose stat fails (a dangling symbolic link)
    op,        \* the last operation: "none", "request", "follow" or "masked"
    req,       \* the last request: its method and its request target
    readDir,   \* the order fs.ReadDir gave the children in, for a listing
    resp,      \* the response to the last request
    followed,  \* the listed entry whose link the last request followed, or nil
    probe,     \* the last direct call of Masked: its entry and its result
    run,       \* where Run is: "serving", "shutdown" or "returned"
    runErr,    \* what Run returned
    ctxDone,   \* whether the context of Run is cancelled
    conns,     \* each connection: "none", "active" (a request in flight),
               \* "idle" or "closed"
    now,       \* the clock, in seconds
    deadline   \* when the context of Shutdown expires

vars ==
    <<cfgMask, broken, op, req, readDir, resp, followed, probe,
      run, runErr, ctxDone, conns, now, deadline>>

serveVars == <<op, req, readDir, resp, followed>>

runVars == <<run, runErr, ctxDone, conns, now, deadline>>

aGo == <<"a", ".", "g", "o">>
bGo == <<"b", ".", "g", "o">>
BGo == <<"B", ".", "g", "o">>
lGo == <<"l", ".", "g", "o">>
nMd == <<"n", ".", "m", "d">>
dDir == <<"d">>
eDir == <<"e">>
pPct41 == <<"p", "%", "4", "1">>
pA == <<"p", "A">>
qPct == <<"q", "%">>
sSpQH == <<"s", " ", "?", "#">>

In(dir, name) == dir \o <<"/">> \o name

\* The tree under the root of os.DirFS("/"): each path and whether it is a
\* directory.  d/l.go is a symbolic link.
Tree ==
    [p \in {<<".">>, aGo, nMd, dDir, eDir,
            In(dDir, bGo), In(dDir, aGo), In(dDir, BGo), In(dDir, lGo),
            In(eDir, pPct41), In(eDir, pA), In(eDir, qPct), In(eDir, sSpQH)}
       |-> p \in {<<".">>, dDir, eDir}]

Links == {In(dDir, lGo)}

DirOf(parts) ==
    IF Len(parts) = 1 THEN <<".">> ELSE Join(SubSeq(parts, 1, Len(parts) - 1), "/")

Dir(p) == DirOf(Split(p, "/"))

ChildNames(dir) == {Base(p) : p \in {q \in DOMAIN Tree : q # <<".">> /\ Dir(q) = dir}}

\* Every order a directory can be enumerated in.  fs.ReadDir on an os.DirFS
\* sorts by file name; the handler is written against fs.FS and sorts again,
\* so the order is left open here.
Orders(S) ==
    {o \in [1..Cardinality(S) -> S] : \A i, j \in 1..Cardinality(S) : o[i] = o[j] => i = j}

\* The tree entry the operating system resolves a name under the root to.
Lookup(full) == IF full = <<"/">> THEN <<".">> ELSE Tail(full)

\* The bug a stat of the joined path, without the check of the name, would be.
StatUnchecked(path) ==
    IF Lookup(Clean(<<"/">> \o path)) \in DOMAIN Tree /\ Lookup(Clean(<<"/">> \o path)) \notin broken
    THEN [err |-> FALSE, Name |-> Base(path), IsDir |-> Tree[Lookup(Clean(<<"/">> \o path))]]
    ELSE [err |-> TRUE, Name |-> <<>>, IsDir |-> FALSE]

\* fs.Stat on os.DirFS("/"): an invalid name is refused before the system call.
Stat(path) ==
    IF ValidPath(path) /\ path \in DOMAIN Tree /\ path \notin broken
    THEN [err |-> FALSE, Name |-> Base(path), IsDir |-> Tree[path]]
    ELSE [err |-> TRUE, Name |-> <<>>, IsDir |-> FALSE]

(***************************************************************************)
(* package index                                                           *)
(***************************************************************************)
FilesRoute == <<"/", "f", "i", "l", "e", "s">>

EntryOf(info, path, linkPath) ==
    IF info.err THEN [err |-> TRUE, entry |-> NilEntry]
    ELSE [err |-> FALSE,
          entry |-> [valid |-> TRUE, Name |-> info.Name, IsDir |-> info.IsDir,
                     FSPath |-> path, LinkPath |-> linkPath]]

\* The bug a link built from the path as it is, unescaped, would be.
GetEntryRawLink(path) == EntryOf(Stat(path), path, JoinPath(FilesRoute, path))

\* GetEntry
GetEntry(path) == EntryOf(Stat(path), path, JoinPath(FilesRoute, PathEscape(path)))

\* The loop of GetEntries over the children fs.ReadDir gave: the first child
\* that does not resolve fails the whole call, a masked child is skipped.
RECURSIVE GetEntriesLoop(_, _, _, _), GetEntriesChild(_, _, _, _, _)
GetEntriesLoop(path, children, m, masked) ==
    IF children = <<>> THEN [err |-> FALSE, entries |-> masked]
    ELSE GetEntriesChild(path, children, m, masked, GetEntry(PathJoin(path, Head(children))))

GetEntriesChild(path, children, m, masked, e) ==
    IF e.err THEN [err |-> TRUE, entries |-> <<>>]
    ELSE IF ~e.entry.valid \/ Masked(m, e.entry)
         THEN GetEntriesLoop(path, Tail(children), m, masked)
    ELSE GetEntriesLoop(path, Tail(children), m, Append(masked, e.entry))

\* GetEntries
GetEntries(path, children, m) == GetEntriesLoop(path, children, m, <<>>)

(***************************************************************************)
(* package server                                                          *)
(***************************************************************************)
RECURSIVE InsertByName(_, _)
InsertByName(e, sorted) ==
    IF sorted = <<>> THEN <<e>>
    ELSE IF StrLess(e.Name, Head(sorted).Name) THEN <<e>> \o sorted
    ELSE <<Head(sorted)>> \o InsertByName(e, Tail(sorted))

\* The bug a handler that renders the entries as enumerated would be.
SortByNameSkipped(entries) == entries

\* sort.Slice by Name: the names of one directory differ, so the result is the
\* one ascending order whatever the algorithm.
RECURSIVE SortByName(_)
SortByName(entries) ==
    IF entries = <<>> THEN <<>>
    ELSE InsertByName(Head(entries), SortByName(Tail(entries)))

Response(status, body, entry, rows) ==
    [status |-> status, body |-> body, entry |-> entry, rows |-> rows]

\* http.NotFound
NotFound == Response(404, "404 page not found", NilEntry, <<>>)

\* http.Error
Error(text, status) == Response(status, text, NilEntry, <<>>)

\* http.ServeFileFS: a request path with a ".." element is refused, a path that
\* ends in /index.html is redirected, and the file is streamed otherwise.
containsDotDot(elems) == \E i \in 1..Len(elems) : elems[i] = DotDot

ServeFileFS(urlPath, entry) ==
    IF containsDotDot(Split(urlPath, "/"))
    THEN Error("invalid URL path", 400)
    ELSE IF HasSuffix(urlPath, <<"/", "i", "n", "d", "e", "x", ".", "h", "t", "m", "l">>)
    THEN Response(301, "redirect", NilEntry, <<>>)
    ELSE Response(200, "file", entry, <<>>)

\* The bug a handler that tells a masked entry from an absent one would be.
MaskedResponseForbidden == Error("Forbidden", 403)

\* What ServeHTTP answers for an entry the mask hides.
MaskedResponse == NotFound

\* ServeHTTP from the listing on: what GetEntries returned is sorted and
\* rendered, or answered with 500.
ServeListing(entry, listed) ==
    IF listed.err THEN Error("Internal Server Error", 500)
    ELSE Response(200, "listing", entry, SortByName(listed.entries))

\* ServeHTTP from the result of GetEntry on: resolution, visibility, dispatch.
ServeEntry(m, urlPath, children, got) ==
    IF got.err THEN NotFound
    ELSE IF Masked(m, got.entry) THEN MaskedResponse
    ELSE IF got.entry.IsDir
         THEN ServeListing(got.entry, GetEntries(got.entry.FSPath, children, m))
    ELSE ServeFileFS(urlPath, got.entry)

\* ServeHTTP from the cleaned path on: the root sentinel, then the entry.
ServeCleaned(m, urlPath, children, fsPath) ==
    IF fsPath = <<".">> THEN Error("Bad Request", 400)
    ELSE ServeEntry(m, urlPath, children, GetEntry(fsPath))

\* ServeHTTP from the result of url.PathUnescape on.
ServeUnescaped(m, urlPath, children, unescaped) ==
    IF unescaped.err THEN Error("Bad Request", 400)
    ELSE ServeCleaned(m, urlPath, children, Clean(unescaped.val))

\* The bug a handler that does not check the method would be.
ServeHTTPAnyMethod(m, method, urlPath, children) ==
    ServeUnescaped(m, urlPath, children, PathUnescape(urlPath))

\* Server.ServeHTTP, on the path StripPrefix left in r.URL.Path.  children is
\* what fs.ReadDir gives when the entry is a directory.
ServeHTTP(m, method, urlPath, children) ==
    IF method \notin {"GET", "HEAD"} THEN Error("Method not allowed", 405)
    ELSE ServeUnescaped(m, urlPath, children, PathUnescape(urlPath))

\* The cleanPath of ServeMux, on the escaped request path.
cleanPathOf(p, np) == IF p[Len(p)] = "/" /\ np # <<"/">> THEN np \o <<"/">> ELSE np

cleanPath(p) ==
    IF p = <<>> THEN <<"/">>
    ELSE IF p[1] = "/" THEN cleanPathOf(p, Clean(p))
    ELSE cleanPathOf(<<"/">> \o p, Clean(<<"/">> \o p))

\* The handler registered for "/".
RootHandler(urlPath) ==
    IF urlPath # <<"/">> THEN NotFound ELSE Response(200, "", NilEntry, <<>>)

Prefix == FilesRoute \o <<"/">>

\* http.StripPrefix("/files/", server): the prefix is taken off Path and, when
\* it is set, RawPath; a request without it is not found.
StripPrefix(m, method, path, rawPath, children) ==
    IF HasPrefix(path, Prefix) /\ (rawPath = <<>> \/ HasPrefix(rawPath, Prefix))
    THEN ServeHTTP(m, method, TrimPrefix(path, Prefix), children)
    ELSE NotFound

\* The mux of Run, on a request whose target the server parsed: a path that
\* is not clean, and /files, are redirected; /files/ goes to the file server
\* and everything else to the root handler.
Mux(m, method, target, children, parsed) ==
    IF parsed.err THEN Error("400 Bad Request", 400)
    ELSE IF cleanPath(target) # target \/ target = FilesRoute
    THEN Response(301, "redirect", NilEntry, <<>>)
    ELSE IF HasPrefix(target, Prefix)
    THEN StripPrefix(m, method, parsed.val,
                     IF target = escape(parsed.val, "path") THEN <<>> ELSE target, children)
    ELSE RootHandler(parsed.val)

\* The HTTP server of Run: it decodes the request target once into URL.Path
\* (400 when it cannot) and hands the request to the mux.
Serve(m, method, target, children) == Mux(m, method, target, children, unescape(target))

\* What reaches ServeHTTP as r.URL.Path for a request to the file route.
HandlerPath(target) == TrimPrefix(unescape(target).val, Prefix)

\* Whether the request is one the mux hands to ServeHTTP.
ToFileRoute(target) ==
    /\ ~unescape(target).err
    /\ cleanPath(target) = target
    /\ HasPrefix(target, Prefix)

(***************************************************************************)
(* Bounds and inputs                                                       *)
(***************************************************************************)
MaxRules == 3

MaxConns == 2

MaxTime == 7

\* context.WithTimeout(context.Background(), 5*time.Second)
GracePeriod == 5

secretGo == <<"s", "e", "c", "r", "e", "t", ".", "g", "o">>
starGo == <<"*", ".", "g", "o">>

\* The lines a rule text is made of: *.go, !secret.go, secret.go, d/ and a
\* comment.
LinePool ==
    {starGo, <<"!">> \o secretGo, secretGo, <<"d", "/">>, <<"#", " ">> \o secretGo}

RuleTexts ==
    {Join(lines, NL) : lines \in UNION {[1..n -> LinePool] : n \in 0..MaxRules}}

\* The rule texts the served tree is checked under: everything ("*"), the
\* shape of the default configuration ("**/d/", a blank line, "**/*.go"), and
\* Go files but a.go ("*.go", "!a.go").
ServedMasks ==
    {<<"*">>,
     <<"*", "*", "/", "d", "/", NL, " ", NL, "*", "*", "/">> \o starGo,
     starGo \o <<NL, "!">> \o aGo}

MkEntry(path, isDir) ==
    [valid |-> TRUE, Name |-> Base(path), IsDir |-> isDir, FSPath |-> path,
     LinkPath |-> JoinPath(FilesRoute, PathEscape(path))]

\* The entries Masked is called on directly, nil among them.
ProbeEntries ==
    {NilEntry, MkEntry(secretGo, FALSE), MkEntry(aGo, FALSE), MkEntry(nMd, FALSE),
     MkEntry(dDir, TRUE), MkEntry(dDir, FALSE), MkEntry(In(dDir, secretGo), FALSE),
     MkEntry(In(dDir, nMd), FALSE), MkEntry(In(secretGo, nMd), FALSE)}

Methods == {"GET", "HEAD", "POST"}

\* The request targets, as sent: / and /x; /files/ and the paths of the tree;
\* an absent path and a path through a file; encoded traversals
\* (..%2F..%2Fd%2Fa.go, ..%2F..%2Fd, d%2F..%2F..%2Fa.go, %2Fd, d/%2E%2E/a.go,
\* %2E); a target
\* the server cannot decode (%zz) and one the handler cannot (%25zz); and
\* targets the mux redirects (/files, /files//d, /files/d/../a.go).
Targets ==
    {<<"/">>, <<"/", "x">>, FilesRoute, Prefix,
     Prefix \o aGo, Prefix \o nMd, Prefix \o dDir, Prefix \o eDir,
     Prefix \o In(dDir, aGo), Prefix \o In(dDir, bGo), Prefix \o In(dDir, lGo),
     Prefix \o In(eDir, pA),
     Prefix \o <<"z", "z">>, Prefix \o In(aGo, <<"x">>),
     Prefix \o <<".", ".", "%", "2", "F", ".", ".", "%", "2", "F", "d", "%", "2", "F">> \o aGo,
     Prefix \o <<".", ".", "%", "2", "F", ".", ".", "%", "2", "F", "d">>,
     Prefix \o <<"d", "%", "2", "F", ".", ".", "%", "2", "F", ".", ".", "%", "2", "F">> \o aGo,
     Prefix \o <<"%", "2", "F", "d">>,
     Prefix \o <<"d", "/", "%", "2", "E", "%", "2", "E", "/">> \o aGo,
     Prefix \o <<"%", "2", "E">>,
     Prefix \o <<"%", "z", "z">>, Prefix \o <<"%", "2", "5", "z", "z">>,
     Prefix \o <<"/">> \o dDir, Prefix \o <<"d", "/", ".", ".", "/">> \o aGo}

NoRequest == [method |-> "", target |-> <<>>]

NoResponse == Response(0, "", NilEntry, <<>>)

NoProbe == [entry |-> NilEntry, masked |-> FALSE]

\* The directory a request to the file route lists when it gets that far.
CleanedOf(u) == IF u.err THEN <<>> ELSE Clean(u.val)

ListedDir(target) == CleanedOf(PathUnescape(HandlerPath(target)))

(***************************************************************************)
(* The server at work                                                      *)
(***************************************************************************)
InitConfig ==
    /\ op = "none"
    /\ req = NoRequest
    /\ readDir = <<>>
    /\ resp = NoResponse
    /\ followed = NilEntry
    /\ probe = NoProbe

InitRun ==
    /\ run = "serving"
    /\ runErr = "none"
    /\ ctxDone = FALSE
    /\ conns = [c \in 1..MaxConns |-> "none"]
    /\ now = 0
    /\ deadline = 0

\* New: the mask is compiled from Config.Mask once.
Init ==
    /\ cfgMask \in ServedMasks
    /\ broken \in {{}, Links}
    /\ InitConfig
    /\ InitRun

Exchange(kind, method, target, children, entry) ==
    /\ op' = kind
    /\ req' = [method |-> method, target |-> target]
    /\ resp' = Serve(NewGlobMask(cfgMask), method, target, children)
    /\ readDir' = IF resp'.body \in {"listing", "Internal Server Error"} THEN children ELSE <<>>
    /\ followed' = entry
    /\ probe' = NoProbe
    /\ UNCHANGED <<cfgMask, broken, runVars>>

\* A client sends a request.  The handler keeps nothing from one request to
\* the next, so the exchanges are taken one at a time, each from the server at
\* rest.
Request ==
    /\ op = "none"
    /\ \E method \in Methods, target \in Targets :
        \E children \in Orders(ChildNames(ListedDir(target))) :
            Exchange("request", method, target, children, NilEntry)

\* A client follows the link of a row of the listing it was sent.
FollowLink ==
    /\ resp.body = "listing"
    /\ \E i \in 1..Len(resp.rows) :
           \E children \in Orders(ChildNames(ListedDir(resp.rows[i].LinkPath))) :
               Exchange("follow", "GET", resp.rows[i].LinkPath, children, resp.rows[i])

\* Masked is called on an entry, or on nil.
MaskedCall ==
    \E e \in ProbeEntries :
        /\ op = "none"
        /\ op' = "masked"
        /\ probe' = [entry |-> e, masked |-> Masked(NewGlobMask(cfgMask), e)]
        /\ req' = NoRequest
        /\ resp' = NoResponse
        /\ readDir' = <<>>
        /\ followed' = NilEntry
        /\ UNCHANGED <<cfgMask, broken, runVars>>

\* The exchange, or the call, is over.
Done ==
    /\ op # "none"
    /\ op' = "none"
    /\ req' = NoRequest
    /\ resp' = NoResponse
    /\ readDir' = <<>>
    /\ followed' = NilEntry
    /\ probe' = NoProbe
    /\ UNCHANGED <<cfgMask, broken, runVars>>

Next == Request \/ FollowLink \/ MaskedCall \/ Done

Spec == Init /\ [][Next]_vars

\* The mask alone, over every rule text of up to MaxRules lines.
InitMask ==
    /\ cfgMask \in RuleTexts
    /\ broken = {}
    /\ InitConfig
    /\ InitRun

NextMask == MaskedCall \/ Done

SpecMask == InitMask /\ [][NextMask]_vars

(***************************************************************************)
(* Run: the listener, the context and the shutdown                         *)
(***************************************************************************)
Quiet == \A c \in 1..MaxConns : conns[c] # "active"

\* httpServer.ListenAndServe accepts a connection and its first request.
Accept ==
    \E c \in 1..MaxConns :
        /\ run = "serving"
        /\ conns[c] = "none"
        /\ conns' = [conns EXCEPT ![c] = "active"]
        /\ UNCHANGED <<cfgMask, broken, serveVars, probe, run, runErr, ctxDone, now, deadline>>

\* A kept-alive connection sends its next request.
NextRequest ==
    \E c \in 1..MaxConns :
        /\ run = "serving"
        /\ conns[c] = "idle"
        /\ conns' = [conns EXCEPT ![c] = "active"]
        /\ UNCHANGED <<cfgMask, broken, serveVars, probe, run, runErr, ctxDone, now, deadline>>

\* A handler returns: the connection is kept alive while the server serves and
\* closed once it is shutting down.
Complete ==
    \E c \in 1..MaxConns :
        /\ conns[c] = "active"
        /\ conns' = [conns EXCEPT ![c] = IF run = "serving" THEN "idle" ELSE "closed"]
        /\ UNCHANGED <<cfgMask, broken, serveVars, probe, run, runErr, ctxDone, now, deadline>>

\* The signal context of the command is cancelled.
Cancel ==
    /\ run = "serving"
    /\ ~ctxDone
    /\ ctxDone' = TRUE
    /\ UNCHANGED <<cfgMask, broken, serveVars, probe, run, runErr, conns, now, deadline>>

\* context.WithTimeout(context.Background(), 5*time.Second)
ShutdownDeadline == now + GracePeriod

\* case <-ctx.Done(): Shutdown is called; it closes the listener and the idle
\* connections and waits for the others.
BeginShutdown ==
    /\ run = "serving"
    /\ ctxDone
    /\ run' = "shutdown"
    /\ deadline' = ShutdownDeadline
    /\ conns' = [c \in 1..MaxConns |-> IF conns[c] = "idle" THEN "closed" ELSE conns[c]]
    /\ UNCHANGED <<cfgMask, broken, serveVars, probe, runErr, ctxDone, now>>

\* Shutdown returns nil once no connection is active, and the error of its
\* context once that expires; it closes no active connection.  Run returns
\* what Shutdown returned.
ShutdownReturn ==
    /\ run = "shutdown"
    /\ \/ Quiet /\ runErr' = "nil"
       \/ now >= deadline /\ runErr' = "context deadline exceeded"
    /\ run' = "returned"
    /\ UNCHANGED <<cfgMask, broken, serveVars, probe, ctxDone, conns, now, deadline>>

\* case err := <-errCh: the listener failed and Run returns its error.
ListenFail ==
    /\ run = "serving"
    /\ run' = "returned"
    /\ runErr' = "listen error"
    /\ UNCHANGED <<cfgMask, broken, serveVars, probe, ctxDone, conns, now, deadline>>

\* A second passes.  A select whose case is ready is taken at once: no time
\* passes between the cancellation and the call of Shutdown, nor after the
\* context of Shutdown expired.
Tick ==
    /\ now < MaxTime
    /\ ~(run = "serving" /\ ctxDone)
    /\ ~(run = "shutdown" /\ now >= deadline)
    /\ now' = now + 1
    /\ UNCHANGED <<cfgMask, broken, serveVars, probe, run, runErr, ctxDone, conns, deadline>>

InitServing ==
    /\ cfgMask = <<"*">>
    /\ broken = {}
    /\ InitConfig
    /\ InitRun

NextRun ==
    \/ Accept
    \/ NextRequest
    \/ Complete
    \/ Cancel
    \/ BeginShutdown
    \/ ShutdownReturn
    \/ ListenFail
    \/ Tick

SpecRun == InitServing /\ [][NextRun]_vars

(***************************************************************************)
(* The request of the current state, as the pipeline of ServeHTTP sees it  *)
(***************************************************************************)
TheMask == NewGlobMask(cfgMask)

\* The request reached ServeHTTP.
Handled == op \in {"request", "follow"} /\ ToFileRoute(req.target)

MethodOK == req.method \in {"GET", "HEAD"}

Decoded == PathUnescape(HandlerPath(req.target))

FsPath == Clean(Decoded.val)

Resolved == GetEntry(FsPath)

\* The request passed the method check, the decoding and the root sentinel.
Looked == Handled /\ MethodOK /\ ~Decoded.err /\ FsPath # <<".">>

\* The request passed all five checks.
Dispatched == Looked /\ ~Resolved.err /\ ~Masked(TheMask, Resolved.entry)

AbsentTarget == Prefix \o <<"z", "z">>

(***************************************************************************)
(* Properties                                                              *)
(***************************************************************************)

\* C1: a GET or HEAD request for an existing entry that the mask hides, a file
\* or a directory, gets the very response a request for a path that does not
\* exist gets: 404 and the same body.
C1_MaskedIsAbsent ==
    (Looked /\ ~Resolved.err /\ Masked(TheMask, Resolved.entry))
        => /\ Stat(<<"z", "z">>).err
           /\ resp = Serve(TheMask, req.method, AbsentTarget, <<>>)
           /\ resp.status = 404

C1_Witness ==
    /\ Looked
    /\ ~Resolved.err
    /\ Resolved.entry.IsDir
    /\ Masked(TheMask, Resolved.entry)
    /\ resp.status = 404

\* The patterns of the compiled mask that match the entry, by position.
Matching(entry) ==
    {i \in 1..Len(TheMask) :
        PatternMatch(TheMask[i], Split(entry.FSPath, "/"), entry.IsDir) # "NoMatch"}

LastMatching(entry) == CHOOSE i \in Matching(entry) : \A j \in Matching(entry) : j <= i

C2Rules == starGo \o <<NL, "!">> \o secretGo \o <<NL>> \o secretGo

\* C2: an entry is visible exactly when some rule matches it and the last rule
\* that matches it, in the order of declaration, is not negated; with the rules
\* *.go, !secret.go, secret.go the entry secret.go is visible.
C2_LastMatchWins ==
    (op = "masked" /\ probe.entry.valid)
        => /\ ~probe.masked <=>
                  /\ Matching(probe.entry) # {}
                  /\ ~TheMask[LastMatching(probe.entry)].inclusion
           /\ (cfgMask = C2Rules /\ probe.entry.FSPath = secretGo) => ~probe.masked

C2_Witness ==
    /\ op = "masked"
    /\ cfgMask = C2Rules
    /\ probe.entry.FSPath = secretGo
    /\ Matching(probe.entry) = {1, 2, 3}
    /\ ~probe.masked

\* The cleaned path leaves the root: its first element is "..".
Escapes(path) == Split(path, "/")[1] = DotDot

ListableChildren(dir) ==
    {e \in {GetEntry(PathJoin(dir, n)) : n \in ChildNames(dir)} :
        ~e.err /\ ~Masked(TheMask, e.entry)}

RowSet(rows) == {rows[i] : i \in 1..Len(rows)}

\* C4: the listing of a visible directory holds exactly the children that
\* resolve and are not masked; a child that does not resolve is dropped and the
\* listing of the others is still returned.
C4_ListingDropsUnresolved ==
    (Dispatched /\ Resolved.entry.IsDir)
        => /\ resp.body = "listing"
           /\ RowSet(resp.rows) = {e.entry : e \in ListableChildren(Resolved.entry.FSPath)}

\* C5: Masked(nil) is true whatever the rules, and no entry that did not
\* resolve is listed or served.
C5_FailClosed ==
    /\ (op = "masked" /\ ~probe.entry.valid) => probe.masked
    /\ resp.body = "listing" =>
           \A i \in 1..Len(resp.rows) : resp.rows[i].valid /\ ~Stat(resp.rows[i].FSPath).err
    /\ resp.body \in {"file", "listing"} =>
           resp.entry.valid /\ ~Stat(resp.entry.FSPath).err

C5_Witness ==
    /\ op = "masked"
    /\ cfgMask = <<"*">>
    /\ ~probe.entry.valid
    /\ probe.masked

\* C6: the checks run in the order method, decoding, root sentinel, resolution,
\* visibility, and the first that fails answers: 405, 400, 400, 404, 404; a
\* file is streamed or a directory listed only when all five passed.
C6_PipelineOrder ==
    Handled =>
        /\ IF ~MethodOK THEN resp.status = 405
           ELSE IF Decoded.err THEN resp.status = 400
           ELSE IF FsPath = <<".">> THEN resp.status = 400
           ELSE IF Resolved.err THEN resp.status = 404
           ELSE IF Masked(TheMask, Resolved.entry) THEN resp.status = 404
           ELSE resp.status # 405 /\ resp.status # 404
        /\ resp.body \in {"file", "listing"} => Dispatched

C6_Witness ==
    /\ Handled
    /\ MethodOK
    /\ req.target = Prefix
    /\ FsPath = <<".">>
    /\ resp.status = 400

Ascending(rows) ==
    \A i \in 1..(Len(rows) - 1) : StrLess(rows[i].Name, rows[i + 1].Name)

\* C7: the rows of a listing are in ascending byte order of name, whatever the
\* order the directory was enumerated in.
C7_ListingSorted ==
    resp.body = "listing" =>
        /\ Ascending(resp.rows)
        /\ resp.rows = SortByName(GetEntries(resp.entry.FSPath, readDir, TheMask).entries)

C7_Witness ==
    /\ resp.body = "listing"
    /\ readDir = <<bGo, aGo, lGo, BGo>>
    /\ Len(resp.rows) = Len(readDir)
    /\ resp.rows[1].Name = BGo
    /\ resp.rows[2].Name = aGo
    /\ resp.rows[3].Name = bGo

RoundTrips(e) ==
    /\ HasPrefix(e.LinkPath, Prefix)
    /\ PathUnescape(TrimPrefix(e.LinkPath, Prefix)) = [err |-> FALSE, val |-> e.FSPath]

\* C8: for every entry GetEntry returns, LinkPath without the /files/ prefix
\* unescapes to FSPath.
C8_LinkRoundTrip ==
    /\ resp.entry.valid => RoundTrips(resp.entry)
    /\ \A i \in 1..Len(resp.rows) : RoundTrips(resp.rows[i])

C8_Witness ==
    /\ resp.body = "listing"
    /\ \E i \in 1..Len(resp.rows) : resp.rows[i].FSPath = In(eDir, pPct41)
    /\ \E i \in 1..Len(resp.rows) : resp.rows[i].FSPath = In(eDir, sSpQH)

\* Run does not wait in Shutdown beyond the grace period.
RunWaitBounded == run = "shutdown" => (now <= deadline /\ deadline - now <= GracePeriod)

\* C9: once the context is cancelled Run waits for the requests in flight for
\* at most the grace period and returns; the connections of the requests that
\* did not complete by then are closed.
C9_GracefulShutdown ==
    /\ RunWaitBounded
    /\ (run = "returned" /\ runErr = "context deadline exceeded") => Quiet

\* C10: a GET of the link of a listed entry resolves to the entry that was
\* listed, whatever its name.
C10_ListedLinkFetchable ==
    op = "follow" =>
        /\ resp.entry.valid
        /\ resp.entry.FSPath = followed.FSPath

=============================================================================
